---- MODULE Spec2Model ----
(***************************************************************************)
(* A model of SceneManager (src/SceneManager.cpp): the texture registry,   *)
(* the material catalog, the shader-uniform writes and the fixed call      *)
(* sequences of PrepareScene and RenderScene.                              *)
(*                                                                         *)
(* Real numbers are held in hundredths (Real(1, 80) is 1.8); every literal *)
(* of the source has at most two decimals.  Angles are whole degrees and   *)
(* the model covers the multiples of 90 the scene uses, for which sine and *)
(* cosine are exact.  The shader manager pointer is taken to be non-null,  *)
(* as PrepareScene dereferences it unconditionally.                        *)
(***************************************************************************)
EXTENDS Integers, Sequences, FiniteSets, TLC

VARIABLES
    m_textureIDs,      \* index -> [ID, tag], the entries written so far
    m_loadedTextures,  \* number of registered textures
    m_objectMaterials, \* sequence of [tag, diffuseColor, specularColor, shininess]
    gl,                \* the graphics context: active unit, 2D bindings, names
    uniforms,          \* shader uniform name -> value
    meshes,            \* set of mesh kinds loaded by m_basicMeshes
    lastCall,          \* the most recent call: [op, tag, arg, ret]
    regLog,            \* history: <<[tag, slot, id]>> of the successful registrations
    hist,              \* history: [attempts, failures, binds, draws, calls,
                       \*           shown]
    pc,                \* [fn, step]: position in PrepareScene / RenderScene
    frame,             \* number of RenderScene calls started
    input              \* the arguments of the call under study

vars == << m_textureIDs, m_loadedTextures, m_objectMaterials, gl, uniforms,
           meshes, lastCall, regLog, hist, pc, frame, input >>

(***************************************************************************)
(* Bounds of the model.                                                    *)
(***************************************************************************)
MaxLoaded == 3
MaxNames == 4

\* "There are up to 16 slots."
TextureUnits == 16

Tags == {"cloth", "skull"}

\* stbi_load: 0 stands for a NULL image, 1..4 for the decoded channel count
ImageOutcomes == {0, 1, 2, 3, 4}

Real(whole, hundredths) == whole * 100 + hundredths
One == Real(1, 0)

(***************************************************************************)
(* The graphics context.                                                   *)
(***************************************************************************)
\* names are handed out in sequence: 1, 2, 3, ...
glGenTextures(g) == [g EXCEPT !.names = g.names + 1]

\* an enum outside GL_TEXTURE0 .. GL_TEXTURE0 + units - 1 is GL_INVALID_ENUM
glActiveTexture(g, unit) ==
    IF unit \in 0..(TextureUnits - 1) THEN [g EXCEPT !.active = unit] ELSE g

\* handle is the int the code passes; as a GLuint, -1 is a name never
\* generated.  A core profile rejects such a name (GL_INVALID_OPERATION); a
\* compatibility profile creates the texture object and binds it.
glBindTexture(g, handle) ==
    IF handle \in 0..g.names
    THEN [g EXCEPT !.bound[g.active] = handle]
    ELSE IF g.profile = "core" THEN g
         ELSE [g EXCEPT !.bound[g.active] = handle]

glTexParameteri(g, handle, mode) ==
    [g EXCEPT !.wrap = [h \in (DOMAIN g.wrap) \cup {handle} |->
                           IF h = handle THEN mode ELSE g.wrap[h]]]

(***************************************************************************)
(* The texture registry.                                                   *)
(***************************************************************************)
ArrayStore(arr, i, v) ==
    [j \in (DOMAIN arr) \cup {i} |-> IF j = i THEN v ELSE arr[j]]

\* variant: the scan keeps going after a match, so the last match wins
RECURSIVE FindTextureID_LastMatch(_, _, _, _)
FindTextureID_LastMatch(ids, loaded, tag, index) ==
    IF index < loaded
    THEN LET rest == FindTextureID_LastMatch(ids, loaded, tag, index + 1)
         IN  IF ids[index].tag = tag /\ rest = -1 THEN ids[index].ID ELSE rest
    ELSE -1

RECURSIVE FindTextureIDFrom(_, _, _, _)
FindTextureIDFrom(ids, loaded, tag, index) ==
    IF index < loaded
    THEN IF ids[index].tag = tag
         THEN ids[index].ID
         ELSE FindTextureIDFrom(ids, loaded, tag, index + 1)
    ELSE -1

FindTextureID(ids, loaded, tag) == FindTextureIDFrom(ids, loaded, tag, 0)

\* variant: the scan keeps going after a match, so the last match wins
RECURSIVE FindTextureSlot_LastMatch(_, _, _, _)
FindTextureSlot_LastMatch(ids, loaded, tag, index) ==
    IF index < loaded
    THEN LET rest == FindTextureSlot_LastMatch(ids, loaded, tag, index + 1)
         IN  IF ids[index].tag = tag /\ rest = -1 THEN index ELSE rest
    ELSE -1

\* variant: the miss result is left at slot 0 instead of the -1 sentinel
RECURSIVE FindTextureSlot_MissIsZero(_, _, _, _)
FindTextureSlot_MissIsZero(ids, loaded, tag, index) ==
    IF index < loaded
    THEN IF ids[index].tag = tag
         THEN index
         ELSE FindTextureSlot_MissIsZero(ids, loaded, tag, index + 1)
    ELSE 0

RECURSIVE FindTextureSlotFrom(_, _, _, _)
FindTextureSlotFrom(ids, loaded, tag, index) ==
    IF index < loaded
    THEN IF ids[index].tag = tag
         THEN index
         ELSE FindTextureSlotFrom(ids, loaded, tag, index + 1)
    ELSE -1

FindTextureSlot(ids, loaded, tag) == FindTextureSlotFrom(ids, loaded, tag, 0)

\* variant: a registration beyond the sixteen texture units is refused
RegisterTexture_ChecksCapacity(ids, loaded, textureID, tag) ==
    IF loaded < TextureUnits
    THEN [ids    |-> ArrayStore(ids, loaded, [ID |-> textureID, tag |-> tag]),
          loaded |-> loaded + 1]
    ELSE [ids |-> ids, loaded |-> loaded]

\* the entry written by a successful registration
RegisterTexture(ids, loaded, textureID, tag) ==
    [ids    |-> ArrayStore(ids, loaded, [ID |-> textureID, tag |-> tag]),
     loaded |-> loaded + 1]

\* variant: every decoded image is registered, whatever its channel count
LoadTexture_NoChannelCheck(op, channels, tag, wrapMode) ==
    IF channels = 0
    THEN    /\ UNCHANGED << m_textureIDs, m_loadedTextures, gl, regLog >>
            /\ lastCall' = [op |-> op, tag |-> tag, arg |-> channels, ret |-> FALSE]
    ELSE    LET textureID == gl.names + 1
                g1 == glBindTexture(glGenTextures(gl), textureID)
                g2 == glTexParameteri(g1, textureID, wrapMode)
                r == RegisterTexture(m_textureIDs, m_loadedTextures, textureID, tag)
            IN  /\ gl' = glBindTexture(g2, 0)
                /\ m_textureIDs' = r.ids
                /\ m_loadedTextures' = r.loaded
                /\ regLog' = Append(regLog, [tag |-> tag, slot |-> m_loadedTextures,
                                             id |-> textureID])
                /\ lastCall' = [op |-> op, tag |-> tag, arg |-> channels,
                                ret |-> channels \in {3, 4}]

\* the body shared by CreateGLTexture and CreateMirroredTexture, which differ
\* in the wrap mode alone
LoadTexture(op, channels, tag, wrapMode) ==
    IF channels = 0
    THEN    /\ UNCHANGED << m_textureIDs, m_loadedTextures, gl, regLog >>
            /\ lastCall' = [op |-> op, tag |-> tag, arg |-> channels, ret |-> FALSE]
    ELSE    LET textureID == gl.names + 1
                g1 == glBindTexture(glGenTextures(gl), textureID)
                g2 == glTexParameteri(g1, textureID, wrapMode)
            IN  IF channels \in {3, 4}
                THEN LET r == RegisterTexture(m_textureIDs, m_loadedTextures,
                                              textureID, tag)
                     IN  /\ gl' = glBindTexture(g2, 0)
                         /\ m_textureIDs' = r.ids
                         /\ m_loadedTextures' = r.loaded
                         /\ regLog' = Append(regLog, [tag |-> tag,
                                                      slot |-> m_loadedTextures,
                                                      id |-> textureID])
                         /\ lastCall' = [op |-> op, tag |-> tag,
                                         arg |-> channels, ret |-> TRUE]
                ELSE /\ gl' = g2
                     /\ UNCHANGED << m_textureIDs, m_loadedTextures, regLog >>
                     /\ lastCall' = [op |-> op, tag |-> tag,
                                     arg |-> channels, ret |-> FALSE]

\* variant: the loop binds every texture without selecting its unit first
RECURSIVE BindFrom_NoActiveTexture(_, _, _, _)
BindFrom_NoActiveTexture(g, ids, loaded, i) ==
    IF i < loaded
    THEN BindFrom_NoActiveTexture(glBindTexture(g, ids[i].ID), ids, loaded, i + 1)
    ELSE g

RECURSIVE BindFrom(_, _, _, _)
BindFrom(g, ids, loaded, i) ==
    IF i < loaded
    THEN BindFrom(glBindTexture(glActiveTexture(g, i), ids[i].ID), ids, loaded, i + 1)
    ELSE g

\* variant: the handles are deleted (glDeleteTextures) and the entries
\* cleared, as the comment of the method announces
DestroyFrom_Deletes(g, ids, loaded, i) ==
    [gl  |-> [g EXCEPT !.bound = [unit \in DOMAIN g.bound |->
                                    IF \E j \in i..(loaded - 1) :
                                          g.bound[unit] = ids[j].ID
                                    THEN 0 ELSE g.bound[unit]]],
     ids |-> [j \in DOMAIN ids |->
                IF j \in i..(loaded - 1) THEN [ids[j] EXCEPT !.ID = 0]
                ELSE ids[j]]]

RECURSIVE DestroyFrom(_, _, _, _)
DestroyFrom(g, ids, loaded, i) ==
    IF i < loaded
    THEN DestroyFrom(glGenTextures(g),
                     [ids EXCEPT ![i].ID = g.names + 1], loaded, i + 1)
    ELSE [gl |-> g, ids |-> ids]

NoCall == [op |-> "none", tag |-> "", arg |-> 0, ret |-> 0]

Idle == pc.fn = "idle"

\* what a texture-registry call leaves alone
RegistryFrame ==
    UNCHANGED << m_objectMaterials, uniforms, meshes, pc, frame, input >>

CreateGLTexture(channels, tag) ==
    /\ Idle
    /\ m_loadedTextures < MaxLoaded
    /\ gl.names < MaxNames
    /\ LoadTexture("CreateGLTexture", channels, tag, "REPEAT")
    /\ UNCHANGED hist
    /\ RegistryFrame

CreateMirroredTexture(channels, tag) ==
    /\ Idle
    /\ m_loadedTextures < MaxLoaded
    /\ gl.names < MaxNames
    /\ LoadTexture("CreateMirroredTexture", channels, tag, "MIRRORED_REPEAT")
    /\ UNCHANGED hist
    /\ RegistryFrame

BindGLTextures ==
    /\ Idle
    /\ gl' = BindFrom(gl, m_textureIDs, m_loadedTextures, 0)
    /\ lastCall' = [NoCall EXCEPT !.op = "BindGLTextures"]
    /\ UNCHANGED << m_textureIDs, m_loadedTextures, regLog, hist >>
    /\ RegistryFrame

DestroyGLTextures ==
    /\ Idle
    /\ gl.names + m_loadedTextures <= MaxNames
    /\ LET d == DestroyFrom(gl, m_textureIDs, m_loadedTextures, 0)
       IN  /\ gl' = d.gl
           /\ m_textureIDs' = d.ids
    /\ lastCall' = [NoCall EXCEPT !.op = "DestroyGLTextures"]
    /\ UNCHANGED << m_loadedTextures, regLog, hist >>
    /\ RegistryFrame

FindTextureIDCall(tag) ==
    /\ Idle
    /\ lastCall' = [op |-> "FindTextureID", tag |-> tag, arg |-> 0,
                    ret |-> FindTextureID(m_textureIDs, m_loadedTextures, tag)]
    /\ UNCHANGED << m_textureIDs, m_loadedTextures, gl, regLog, hist >>
    /\ RegistryFrame

FindTextureSlotCall(tag) ==
    /\ Idle
    /\ lastCall' = [op |-> "FindTextureSlot", tag |-> tag, arg |-> 0,
                    ret |-> FindTextureSlot(m_textureIDs, m_loadedTextures, tag)]
    /\ UNCHANGED << m_textureIDs, m_loadedTextures, gl, regLog, hist >>
    /\ RegistryFrame

(***************************************************************************)
(* Shader uniforms.                                                        *)
(***************************************************************************)
ZeroMat4 == [r \in 1..4 |-> [c \in 1..4 |-> 0]]

InitUniforms ==
    [model |-> ZeroMat4, UVscale |-> <<0, 0>>, bUseTexture |-> 0,
     bBlendTexture |-> 0, bMixFactor |-> 0, objectColor |-> <<0, 0, 0, 0>>,
     objectTexture |-> 0, texture2 |-> 0,
     material |-> [diffuseColor |-> <<0, 0, 0>>, specularColor |-> <<0, 0, 0>>,
                   shininess |-> 0],
     bUseLighting |-> 0, lights |-> << >>]

InitGL(profile) ==
    [active |-> 0, bound |-> [u \in 0..(TextureUnits - 1) |-> 0], names |-> 0,
     wrap |-> << >>, profile |-> profile]

InitCommon ==
    /\ m_textureIDs = << >>
    /\ m_loadedTextures = 0
    /\ m_objectMaterials = << >>
    /\ uniforms = InitUniforms
    /\ meshes = {}
    /\ lastCall = NoCall
    /\ regLog = << >>
    /\ hist = [attempts |-> 0, failures |-> 0, binds |-> 0, draws |-> 0,
               calls |-> << >>, shown |-> << >>]
    /\ frame = 0

(***************************************************************************)
(* The material catalog.                                                   *)
(***************************************************************************)
Vec3(x, y, z) == << x, y, z >>

Material(tag, diffuse, specular, shininess) ==
    [tag |-> tag, diffuseColor |-> diffuse, specularColor |-> specular,
     shininess |-> shininess]

shinyPlasticMaterial ==
    Material("shinyPlastic", Vec3(Real(0, 10), Real(0, 10), Real(0, 10)),
             Vec3(Real(0, 90), Real(0, 90), Real(0, 90)), Real(100, 0))
flatPlasticMaterial ==
    Material("flatPlastic", Vec3(Real(0, 50), Real(0, 50), Real(0, 50)),
             Vec3(Real(0, 20), Real(0, 20), Real(0, 20)), Real(5, 0))
reflectiveGlassMaterial ==
    Material("glass", Vec3(Real(1, 0), Real(1, 0), Real(1, 0)),
             Vec3(Real(0, 95), Real(0, 95), Real(0, 95)), Real(120, 0))
breadMaterial ==
    Material("bread", Vec3(Real(0, 90), Real(0, 70), Real(0, 40)),
             Vec3(Real(0, 10), Real(0, 10), Real(0, 10)), Real(2, 0))
vinylTableclothMaterial ==
    Material("tableCloth", Vec3(Real(0, 20), Real(0, 30), Real(0, 40)),
             Vec3(Real(0, 70), Real(0, 70), Real(0, 70)), Real(50, 0))
wallpaperMaterial ==
    Material("wall", Vec3(Real(0, 80), Real(0, 70), Real(0, 60)),
             Vec3(Real(0, 10), Real(0, 10), Real(0, 10)), Real(3, 0))
orangeMaterial ==
    Material("orange", Vec3(Real(0, 90), Real(0, 50), Real(0, 10)),
             Vec3(Real(0, 30), Real(0, 30), Real(0, 30)), Real(10, 0))

\* variant: the push_back of the glass material is missing
SceneMaterials_GlassNotPushed ==
    << shinyPlasticMaterial, flatPlasticMaterial, breadMaterial,
       vinylTableclothMaterial, wallpaperMaterial, orangeMaterial >>

\* the seven materials pushed by DefineObjectMaterials, in order
SceneMaterials ==
    << shinyPlasticMaterial, flatPlasticMaterial, reflectiveGlassMaterial,
       breadMaterial, vinylTableclothMaterial, wallpaperMaterial,
       orangeMaterial >>

\* the scan of FindMaterial from a 0-based index; material is the caller's
\* object, whose tag the code never writes
RECURSIVE FindMaterialFrom(_, _, _, _)
FindMaterialFrom(catalog, tag, material, index) ==
    IF index < Len(catalog)
    THEN IF catalog[index + 1].tag = tag
         THEN [bFound |-> TRUE,
               material |-> [material EXCEPT
                   !.diffuseColor = catalog[index + 1].diffuseColor,
                   !.specularColor = catalog[index + 1].specularColor,
                   !.shininess = catalog[index + 1].shininess]]
         ELSE FindMaterialFrom(catalog, tag, material, index + 1)
    ELSE [bFound |-> FALSE, material |-> material]

\* variant: the result of the scan is what is returned
FindMaterial_ReturnsFound(catalog, tag, material) ==
    IF Len(catalog) = 0
    THEN [ret |-> FALSE, material |-> material]
    ELSE LET scan == FindMaterialFrom(catalog, tag, material, 0)
         IN  [ret |-> scan.bFound, material |-> scan.material]

\* [ret, material]: the returned flag and the caller's object afterwards
FindMaterial(catalog, tag, material) ==
    IF Len(catalog) = 0
    THEN [ret |-> FALSE, material |-> material]
    ELSE [ret |-> TRUE,
          material |-> FindMaterialFrom(catalog, tag, material, 0).material]

\* OBJECT_MATERIAL material; is default-initialised: its floats hold whatever
\* the stack held, here one of these values in every component
Indeterminate == {0, Real(7, 77)}

LocalMaterial(junk) ==
    Material("", Vec3(junk, junk, junk), Vec3(junk, junk, junk), junk)

\* the uniforms after SetShaderMaterial(materialTag)
SetShaderMaterial(u, catalog, materialTag, junk) ==
    IF Len(catalog) > 0
    THEN LET found == FindMaterial(catalog, materialTag, LocalMaterial(junk))
         IN  IF found.ret = TRUE
             THEN [u EXCEPT !.material =
                      [diffuseColor |-> found.material.diffuseColor,
                       specularColor |-> found.material.specularColor,
                       shininess |-> found.material.shininess]]
             ELSE u
    ELSE u

(***************************************************************************)
(* The model transform.                                                    *)
(***************************************************************************)
\* products of numbers held in hundredths; the quotient is exact whenever
\* one factor of every term is a whole number, as it is in SetTransformations
MatMul(a, b) ==
    [r \in 1..4 |-> [c \in 1..4 |->
        (a[r][1] * b[1][c] + a[r][2] * b[2][c]
           + a[r][3] * b[3][c] + a[r][4] * b[4][c]) \div One]]

Row(a, b, c, d) == << a, b, c, d >>

\* glm::scale(v)
ScaleMat(v) ==
    << Row(v[1], 0, 0, 0), Row(0, v[2], 0, 0), Row(0, 0, v[3], 0),
       Row(0, 0, 0, One) >>

\* glm::translate(v)
TranslateMat(v) ==
    << Row(One, 0, 0, v[1]), Row(0, One, 0, v[2]), Row(0, 0, One, v[3]),
       Row(0, 0, 0, One) >>

\* cosine and sine of a multiple of 90 degrees, in hundredths
Cos(degrees) == << One, 0, -One, 0 >>[((degrees \div 90) % 4) + 1]
Sin(degrees) == << 0, One, 0, -One >>[((degrees \div 90) % 4) + 1]

\* glm::rotate(glm::radians(degrees), axis) about the x, y and z axes
RotateXMat(degrees) ==
    LET c == Cos(degrees)
        s == Sin(degrees)
    IN  << Row(One, 0, 0, 0), Row(0, c, -s, 0), Row(0, s, c, 0), Row(0, 0, 0, One) >>

RotateYMat(degrees) ==
    LET c == Cos(degrees)
        s == Sin(degrees)
    IN  << Row(c, 0, s, 0), Row(0, One, 0, 0), Row(-s, 0, c, 0), Row(0, 0, 0, One) >>

RotateZMat(degrees) ==
    LET c == Cos(degrees)
        s == Sin(degrees)
    IN  << Row(c, -s, 0, 0), Row(s, c, 0, 0), Row(0, 0, One, 0), Row(0, 0, 0, One) >>

\* variant: the factors multiplied in the opposite order
ModelMatrix_Reversed(scaleXYZ, XrotationDegrees, YrotationDegrees, ZrotationDegrees, positionXYZ) ==
    MatMul(MatMul(MatMul(MatMul(ScaleMat(scaleXYZ),
                                RotateXMat(XrotationDegrees)),
                         RotateYMat(YrotationDegrees)),
                  RotateZMat(ZrotationDegrees)),
           TranslateMat(positionXYZ))

\* modelView = translation * rotationZ * rotationY * rotationX * scale
ModelMatrix(scaleXYZ, XrotationDegrees, YrotationDegrees, ZrotationDegrees, positionXYZ) ==
    MatMul(MatMul(MatMul(MatMul(TranslateMat(positionXYZ),
                                RotateZMat(ZrotationDegrees)),
                         RotateYMat(YrotationDegrees)),
                  RotateXMat(XrotationDegrees)),
           ScaleMat(scaleXYZ))

\* the uniforms after SetTransformations(t), t = [scale, rx, ry, rz, pos]
SetTransformations(u, t) ==
    [u EXCEPT !.model = ModelMatrix(t.scale, t.rx, t.ry, t.rz, t.pos)]

(***************************************************************************)
(* Color, texture and UV selection.                                        *)
(***************************************************************************)
\* variant: the "bUseTexture" flag is left as the previous object set it
SetShaderColor_KeepsUseTexture(u, color) == [u EXCEPT !.objectColor = color]

SetShaderColor(u, color) ==
    [u EXCEPT !.bUseTexture = 0, !.objectColor = color]

SetShaderTexture(u, ids, loaded, textureTag) ==
    [u EXCEPT !.bUseTexture = 1,
              !.objectTexture = FindTextureSlot(ids, loaded, textureTag)]

SetTextureUVScale(u, uv) == [u EXCEPT !.UVscale = uv]

\* variant: the samplers are given the texture handles instead of the slots
SetTwoTextures_SamplesHandles(u, g, ids, loaded, tag1, tag2, mixFactor) ==
    LET texture1 == FindTextureID(ids, loaded, tag1)
        texture2 == FindTextureID(ids, loaded, tag2)
    IN  [uniforms |-> [u EXCEPT !.bMixFactor = mixFactor, !.bUseTexture = 1,
                                !.bBlendTexture = 1,
                                !.objectTexture = texture1,
                                !.texture2 = texture2],
         gl |-> g]

\* [uniforms, gl] after SetTwoTextures(tag1, tag2, mixFactor)
SetTwoTextures(u, g, ids, loaded, tag1, tag2, mixFactor) ==
    LET textureID1 == FindTextureSlot(ids, loaded, tag1)
        textureID2 == FindTextureSlot(ids, loaded, tag2)
        texture1 == FindTextureID(ids, loaded, tag1)
        texture2 == FindTextureID(ids, loaded, tag2)
        g1 == glBindTexture(glActiveTexture(g, textureID1), texture1)
        g2 == glBindTexture(glActiveTexture(g1, textureID2), texture2)
    IN  [uniforms |-> [u EXCEPT !.bMixFactor = mixFactor, !.bUseTexture = 1,
                                !.bBlendTexture = 1,
                                !.objectTexture = textureID1,
                                !.texture2 = textureID2],
         gl |-> g2]

(***************************************************************************)
(* Spec: the texture registry driven by arbitrary calls.                   *)
(***************************************************************************)
\* no call of this specification binds a name that was not generated, so
\* the profile of the context is immaterial here
Init ==
    /\ InitCommon
    /\ gl = InitGL("core")
    /\ pc = [fn |-> "idle", step |-> 0]
    /\ input = << >>

Next ==
    \/ \E channels \in ImageOutcomes, tag \in Tags : CreateGLTexture(channels, tag)
    \/ \E channels \in ImageOutcomes, tag \in Tags : CreateMirroredTexture(channels, tag)
    \/ BindGLTextures
    \/ DestroyGLTextures
    \/ \E tag \in Tags \cup {"water"} : FindTextureIDCall(tag)
    \/ \E tag \in Tags \cup {"water"} : FindTextureSlotCall(tag)

Spec == Init /\ [][Next]_vars

(***************************************************************************)
(* SpecMaterial: the material catalog driven by arbitrary calls.           *)
(***************************************************************************)
MaxDefines == 2

MaterialTags == {SceneMaterials[i].tag : i \in 1..Len(SceneMaterials)} \cup {"gold"}

\* the objects a caller may hand to FindMaterial
CallerMaterials ==
    {LocalMaterial(junk) : junk \in Indeterminate}
        \cup {Material("mine", Vec3(Real(0, 25), Real(0, 50), Real(0, 75)),
                       Vec3(One, One, One), Real(32, 0))}

MaterialFrame ==
    UNCHANGED << m_textureIDs, m_loadedTextures, gl, meshes, regLog, hist, pc,
                 frame, input >>

DefineObjectMaterials ==
    /\ Idle
    /\ Len(m_objectMaterials) < MaxDefines * Len(SceneMaterials)
    /\ m_objectMaterials' = m_objectMaterials \o SceneMaterials
    /\ lastCall' = [NoCall EXCEPT !.op = "DefineObjectMaterials"]
    /\ UNCHANGED uniforms
    /\ MaterialFrame

FindMaterialCall(tag, material) ==
    /\ Idle
    /\ lastCall' = [op |-> "FindMaterial", tag |-> tag, arg |-> material,
                    ret |-> FindMaterial(m_objectMaterials, tag, material)]
    /\ UNCHANGED << m_objectMaterials, uniforms >>
    /\ MaterialFrame

SetShaderMaterialCall(materialTag) ==
    /\ Idle
    /\ \E junk \in Indeterminate :
          /\ uniforms' = SetShaderMaterial(uniforms, m_objectMaterials,
                                           materialTag, junk)
          /\ lastCall' = [op |-> "SetShaderMaterial", tag |-> materialTag,
                          arg |-> junk, ret |-> 0]
    /\ UNCHANGED m_objectMaterials
    /\ MaterialFrame

NextMaterial ==
    \/ DefineObjectMaterials
    \/ \E tag \in MaterialTags, material \in CallerMaterials :
          FindMaterialCall(tag, material)
    \/ \E tag \in MaterialTags : SetShaderMaterialCall(tag)

SpecMaterial == Init /\ [][NextMaterial]_vars

(***************************************************************************)
(* SpecTransform: one SetTransformations call on arguments drawn at the    *)
(* start.                                                                  *)
(***************************************************************************)
MaxScale == 2
MaxShift == 1

ScaleValues == {Real(k, 0) : k \in 1..MaxScale}
AngleValues == {0, 90, 180, 270}
ShiftValues ==
    {<< Real(3 * k, 0), j * Real(0, 50), 0 >> : k, j \in 0..MaxShift}

TransformInputs ==
    [scale : ScaleValues \X ScaleValues \X ScaleValues,
     rx : AngleValues, ry : AngleValues, rz : AngleValues,
     pos : ShiftValues]

InitTransform ==
    /\ InitCommon
    /\ gl = InitGL("core")
    /\ pc = [fn |-> "SetTransformations", step |-> 0]
    /\ input \in TransformInputs

SetTransformationsCall ==
    /\ pc = [fn |-> "SetTransformations", step |-> 0]
    /\ uniforms' = SetTransformations(uniforms, input)
    /\ pc' = [pc EXCEPT !.step = 1]
    /\ lastCall' = [NoCall EXCEPT !.op = "SetTransformations"]
    /\ UNCHANGED << m_textureIDs, m_loadedTextures, m_objectMaterials, gl,
                    meshes, regLog, hist, frame, input >>

NextTransform == SetTransformationsCall

SpecTransform == InitTransform /\ [][NextTransform]_vars

(***************************************************************************)
(* SpecShader: texture selection over the registries that registration     *)
(* builds.                                                                 *)
(***************************************************************************)
MixFactors == {0, Real(0, 30)}

ShaderFrame ==
    UNCHANGED << m_textureIDs, m_loadedTextures, m_objectMaterials, meshes,
                 regLog, hist, pc, frame, input >>

SetShaderTextureCall(textureTag) ==
    /\ Idle
    /\ uniforms' = SetShaderTexture(uniforms, m_textureIDs, m_loadedTextures,
                                    textureTag)
    /\ lastCall' = [op |-> "SetShaderTexture", tag |-> textureTag,
                    arg |-> 0, ret |-> 0]
    /\ UNCHANGED gl
    /\ ShaderFrame

SetTwoTexturesCall(tag1, tag2, mixFactor) ==
    /\ Idle
    /\ LET r == SetTwoTextures(uniforms, gl, m_textureIDs, m_loadedTextures,
                               tag1, tag2, mixFactor)
       IN  /\ uniforms' = r.uniforms
           /\ gl' = r.gl
    /\ lastCall' = [op |-> "SetTwoTextures", tag |-> tag1,
                    arg |-> [tag2 |-> tag2, mixFactor |-> mixFactor],
                    ret |-> 0]
    /\ ShaderFrame

NextShader ==
    \/ \E channels \in {0, 3}, tag \in Tags : CreateGLTexture(channels, tag)
    \/ \E tag \in Tags \cup {"water"} : SetShaderTextureCall(tag)
    \/ \E tag1, tag2 \in Tags \cup {"water"}, mixFactor \in MixFactors :
          SetTwoTexturesCall(tag1, tag2, mixFactor)

InitShader ==
    /\ InitCommon
    /\ gl \in {InitGL("core"), InitGL("compatibility")}
    /\ pc = [fn |-> "idle", step |-> 0]
    /\ input = << >>

SpecShader == InitShader /\ [][NextShader]_vars

(***************************************************************************)
(* PrepareScene and RenderScene as the sequences of calls they make.       *)
(***************************************************************************)
\* the uniforms written by SetupSceneLights; the cosine of 45 degrees is
\* rounded to hundredths
SceneLights ==
    [pointLights0 |-> [position |-> << -Real(7, 0), Real(2, 0), Real(6, 0) >>,
                       ambient |-> << Real(0, 60), Real(0, 50), Real(0, 40) >>,
                       diffuse |-> << Real(0, 80), Real(0, 40), Real(0, 10) >>,
                       specular |-> << Real(0, 90), Real(0, 50), Real(0, 20) >>,
                       bActive |-> 1],
     pointLights1 |-> [position |-> << Real(8, 0), Real(2, 0), -Real(6, 0) >>,
                       ambient |-> << Real(0, 5), Real(0, 5), Real(0, 20) >>,
                       diffuse |-> << Real(0, 20), Real(0, 40), Real(1, 0) >>,
                       specular |-> << Real(0, 30), Real(0, 60), Real(1, 0) >>,
                       bActive |-> 1],
     spotLight |-> [position |-> << -Real(2, 0), Real(10, 0), 0 >>,
                    direction |-> << 0, -Real(1, 0), 0 >>,
                    ambient |-> << Real(1, 0), Real(0, 90), Real(0, 80) >>,
                    diffuse |-> << Real(1, 50), Real(1, 30), Real(1, 20) >>,
                    specular |-> << Real(1, 50), Real(1, 30), Real(1, 20) >>,
                    constant |-> Real(1, 0), linear |-> Real(0, 10),
                    quadratic |-> Real(0, 3), cutOff |-> Real(0, 71),
                    outerCutOff |-> Real(0, 50), bActive |-> 1]]

SetupSceneLights(u) == [u EXCEPT !.bUseLighting = 1, !.lights = SceneLights]

Load(fn, tag) == [op |-> "CreateTexture", fn |-> fn, tag |-> tag]
LoadMesh(mesh) == [op |-> "LoadMesh", mesh |-> mesh]

\* the calls of LoadGLTextures up to BindGLTextures, in order
TextureLoads ==
    << Load("CreateGLTexture", "cloth"), Load("CreateGLTexture", "bottleLid"),
       Load("CreateGLTexture", "breadTop"), Load("CreateGLTexture", "butter"),
       Load("CreateGLTexture", "cracks"), Load("CreateGLTexture", "orange"),
       Load("CreateGLTexture", "breadSide"),
       Load("CreateMirroredTexture", "skull"),
       Load("CreateGLTexture", "wall"), Load("CreateGLTexture", "water") >>

\* variant: BindGLTextures is called before the last two loads
LoadGLTextures_BindsEarly ==
    SubSeq(TextureLoads, 1, 8) \o << [op |-> "BindGLTextures"] >>
        \o SubSeq(TextureLoads, 9, 10)

LoadGLTextures == TextureLoads \o << [op |-> "BindGLTextures"] >>

PrepareScene ==
    << [op |-> "DefineObjectMaterials"], [op |-> "SetupSceneLights"] >>
        \o LoadGLTextures
        \o << LoadMesh("Plane"), LoadMesh("Box"), LoadMesh("Cylinder"),
              LoadMesh("Sphere"), LoadMesh("Torus"), LoadMesh("TaperedCylinder") >>

Transform(object, scaleXYZ, rx, ry, rz, positionXYZ) ==
    [op |-> "SetTransformations", object |-> object,
     t |-> [scale |-> scaleXYZ, rx |-> rx, ry |-> ry, rz |-> rz,
            pos |-> positionXYZ]]
UVScale(object, u, v) ==
    [op |-> "SetTextureUVScale", object |-> object, uv |-> << u, v >>]
TwoTextures(object, tag1, tag2, mixFactor) ==
    [op |-> "SetTwoTextures", object |-> object, tag1 |-> tag1, tag2 |-> tag2,
     mixFactor |-> mixFactor]
Color(object, rgba) == [op |-> "SetShaderColor", object |-> object, color |-> rgba]
MaterialOf(object, tag) == [op |-> "SetShaderMaterial", object |-> object, tag |-> tag]
Draw(object, mesh) == [op |-> "DrawMesh", object |-> object, mesh |-> mesh]

\* the calls of RenderScene, in order
RenderScene ==
    <<
       \* object 1: table plane (lines 702-727)
       Transform(1, << Real(20, 0), Real(1, 0), Real(10, 0) >>, 0, 0, 0,
                 << 0, 0, 0 >>),
       UVScale(1, Real(4, 0), Real(4, 0)),
       TwoTextures(1, "cloth", "skull", Real(0, 30)),
       MaterialOf(1, "tableCloth"),
       Draw(1, "Plane"),
       \* object 2: backdrop plane (lines 733-758)
       Transform(2, << Real(20, 0), Real(1, 0), Real(10, 0) >>, 90, 0, 0,
                 << 0, Real(10, 0), -Real(10, 0) >>),
       UVScale(2, Real(3, 0), Real(3, 0)),
       TwoTextures(2, "wall", "skull", Real(0, 50)),
       MaterialOf(2, "wall"),
       Draw(2, "Plane"),
       \* object 3: loaf of bread, box (lines 763-785)
       Transform(3, << Real(5, 0), Real(3, 0), Real(3, 0) >>, 0, 0, 0,
                 << -Real(4, 0), Real(1, 0), Real(4, 0) >>),
       UVScale(3, Real(1, 0), Real(1, 0)),
       TwoTextures(3, "breadSide", "breadSide", 0),
       MaterialOf(3, "bread"),
       Draw(3, "Box"),
       \* object 4: loaf of bread, cylinder (lines 790-809)
       Transform(4, << Real(1, 80), Real(4, 80), Real(1, 0) >>, 90, 90, 0,
                 << -Real(6, 20), Real(3, 0), Real(4, 20) >>),
       TwoTextures(4, "breadTop", "breadTop", 0),
       MaterialOf(4, "bread"),
       Draw(4, "Cylinder"),
       \* object 5: butter container (lines 815-837)
       Transform(5, << Real(1, 50), Real(2, 0), Real(1, 50) >>, 0, 0, 0,
                 << Real(7, 0), 0, Real(4, 0) >>),
       UVScale(5, Real(2, 0), Real(1, 0)),
       TwoTextures(5, "butter", "butter", 0),
       MaterialOf(5, "glass"),
       Draw(5, "Cylinder"),
       \* object 6: butter container, lid (lines 843-862)
       Transform(6, << Real(1, 50), Real(0, 10), Real(1, 50) >>, 0, 0, 0,
                 << Real(7, 0), Real(2, 0), Real(4, 0) >>),
       Color(6, << Real(1, 0), Real(1, 0), Real(0, 80), Real(1, 0) >>),
       MaterialOf(6, "glass"),
       Draw(6, "Cylinder"),
       \* object 7: butter container, bottom (lines 869-889)
       Transform(7, << Real(1, 0), Real(0, 50), Real(1, 0) >>, 0, 0, 0,
                 << Real(7, 0), Real(2, 0), Real(4, 0) >>),
       Color(7, << Real(1, 0), Real(1, 0), Real(0, 80), Real(1, 0) >>),
       MaterialOf(7, "glass"),
       Draw(7, "TaperedCylinder"),
       \* object 8: butter container, top (lines 896-915)
       Transform(8, << Real(1, 0), Real(0, 50), Real(1, 0) >>, 180, 0, 0,
                 << Real(7, 0), Real(3, 0), Real(4, 0) >>),
       Color(8, << Real(1, 0), Real(1, 0), Real(0, 80), Real(1, 0) >>),
       MaterialOf(8, "glass"),
       Draw(8, "TaperedCylinder"),
       \* object 9: orange (lines 921-941)
       Transform(9, << Real(1, 50), Real(1, 0), Real(1, 50) >>, 0, 0, 0,
                 << Real(1, 0), Real(1, 0), Real(7, 0) >>),
       UVScale(9, Real(1, 0), Real(1, 0)),
       TwoTextures(9, "orange", "cracks", Real(0, 20)),
       MaterialOf(9, "orange"),
       Draw(9, "Sphere"),
       \* object 10: orange stem (lines 947-966)
       Transform(10, << Real(0, 10), Real(0, 20), Real(0, 10) >>, 0, 0, 0,
                 << Real(1, 0), Real(2, 0), Real(7, 0) >>),
       MaterialOf(10, "bread"),
       Color(10, << Real(0, 50), Real(0, 30), Real(0, 20), Real(1, 0) >>),
       Draw(10, "Cylinder"),
       \* object 11: bottle base (lines 973-992)
       Transform(11, << Real(1, 50), Real(5, 0), Real(1, 50) >>, 0, 0, 0,
                 << Real(4, 0), Real(0, 50), 0 >>),
       MaterialOf(11, "shinyPlastic"),
       Color(11, << Real(0, 80), Real(0, 80), Real(0, 80), Real(0, 60) >>),
       Draw(11, "Cylinder"),
       \* object 12: bottle neck (lines 998-1017)
       Transform(12, << Real(1, 50), Real(0, 50), Real(1, 50) >>, 0, 0, 0,
                 << Real(4, 0), Real(5, 50), 0 >>),
       Color(12, << Real(0, 80), Real(0, 80), Real(0, 80), Real(0, 60) >>),
       MaterialOf(12, "shinyPlastic"),
       Draw(12, "TaperedCylinder"),
       \* object 13: bottle lid (lines 1024-1045)
       Transform(13, << Real(1, 0), Real(0, 50), Real(0, 50) >>, 0, 0, 0,
                 << Real(4, 0), Real(6, 0), Real(0, 10) >>),
       TwoTextures(13, "bottleLid", "bottleLid", 0),
       MaterialOf(13, "flatPlastic"),
       Draw(13, "Cylinder"),
       \* object 14: bottle torus (lines 1051-1070)
       Transform(14, << Real(1, 0), Real(0, 40), Real(0, 80) >>, 0, 0, 0,
                 << Real(3, 0), Real(6, 0), 0 >>),
       Color(14, << Real(1, 0), Real(0, 80), 0, Real(1, 0) >>),
       MaterialOf(14, "flatPlastic"),
       Draw(14, "Torus")
    >>

Program(fn) ==
    IF fn = "PrepareScene" THEN PrepareScene
    ELSE IF fn = "RenderScene" THEN RenderScene
    ELSE << >>

\* the call at the current position
Running == pc.step < Len(Program(pc.fn))
Instr == Program(pc.fn)[pc.step + 1]
At(op) == Running /\ Instr.op = op

Advance == pc' = [pc EXCEPT !.step = @ + 1]

\* the calls made for the object being rendered, up to its draw call
Called(op) ==
    IF hist.calls # << >> /\ hist.calls[Len(hist.calls)] = "DrawMesh"
    THEN << op >>
    ELSE Append(hist.calls, op)

Note(op) == lastCall' = [NoCall EXCEPT !.op = op]

MaxFailures == 1
MaxFrames == 2

StepDefineObjectMaterials ==
    /\ At("DefineObjectMaterials")
    /\ m_objectMaterials' = m_objectMaterials \o SceneMaterials
    /\ Advance
    /\ Note("DefineObjectMaterials")
    /\ UNCHANGED << m_textureIDs, m_loadedTextures, gl, uniforms, meshes,
                    regLog, hist, frame, input >>

StepSetupSceneLights ==
    /\ At("SetupSceneLights")
    /\ uniforms' = SetupSceneLights(uniforms)
    /\ Advance
    /\ Note("SetupSceneLights")
    /\ UNCHANGED << m_textureIDs, m_loadedTextures, m_objectMaterials, gl,
                    meshes, regLog, hist, frame, input >>

StepCreateTexture(channels) ==
    /\ At("CreateTexture")
    /\ channels \in {3, 4} \/ hist.failures < MaxFailures
    /\ LoadTexture(Instr.fn, channels, Instr.tag,
                   IF Instr.fn = "CreateMirroredTexture"
                   THEN "MIRRORED_REPEAT" ELSE "REPEAT")
    /\ hist' = [hist EXCEPT !.attempts = @ + 1,
                            !.failures = IF channels \in {3, 4} THEN @ ELSE @ + 1]
    /\ Advance
    /\ UNCHANGED << m_objectMaterials, uniforms, meshes, frame, input >>

StepBindGLTextures ==
    /\ At("BindGLTextures")
    /\ gl' = BindFrom(gl, m_textureIDs, m_loadedTextures, 0)
    /\ hist' = [hist EXCEPT !.binds = @ + 1]
    /\ Advance
    /\ Note("BindGLTextures")
    /\ UNCHANGED << m_textureIDs, m_loadedTextures, m_objectMaterials,
                    uniforms, meshes, regLog, frame, input >>

StepLoadMesh ==
    /\ At("LoadMesh")
    /\ meshes' = meshes \cup {Instr.mesh}
    /\ Advance
    /\ Note("LoadMesh")
    /\ UNCHANGED << m_textureIDs, m_loadedTextures, m_objectMaterials, gl,
                    uniforms, regLog, hist, frame, input >>

\* what the calls of RenderScene other than SetTwoTextures leave alone
RenderFrame ==
    UNCHANGED << m_textureIDs, m_loadedTextures, m_objectMaterials, gl, meshes,
                 regLog, frame, input >>

StepSetTransformations ==
    /\ At("SetTransformations")
    /\ uniforms' = SetTransformations(uniforms, Instr.t)
    /\ hist' = [hist EXCEPT !.calls = Called("SetTransformations")]
    /\ Advance
    /\ Note("SetTransformations")
    /\ RenderFrame

StepSetTextureUVScale ==
    /\ At("SetTextureUVScale")
    /\ uniforms' = SetTextureUVScale(uniforms, Instr.uv)
    /\ hist' = [hist EXCEPT !.calls = Called("SetTextureUVScale")]
    /\ Advance
    /\ Note("SetTextureUVScale")
    /\ RenderFrame

StepSetTwoTextures ==
    /\ At("SetTwoTextures")
    /\ LET r == SetTwoTextures(uniforms, gl, m_textureIDs, m_loadedTextures,
                               Instr.tag1, Instr.tag2, Instr.mixFactor)
       IN  /\ uniforms' = r.uniforms
           /\ gl' = r.gl
    /\ hist' = [hist EXCEPT !.calls = Called("SetTwoTextures")]
    /\ Advance
    /\ lastCall' = [op |-> "SetTwoTextures", tag |-> Instr.tag1,
                    arg |-> [tag2 |-> Instr.tag2, mixFactor |-> Instr.mixFactor],
                    ret |-> 0]
    /\ UNCHANGED << m_textureIDs, m_loadedTextures, m_objectMaterials, meshes,
                    regLog, frame, input >>

StepSetShaderColor ==
    /\ At("SetShaderColor")
    /\ uniforms' = SetShaderColor(uniforms, Instr.color)
    /\ hist' = [hist EXCEPT !.calls = Called("SetShaderColor")]
    /\ Advance
    /\ Note("SetShaderColor")
    /\ RenderFrame

StepSetShaderMaterial ==
    /\ At("SetShaderMaterial")
    /\ \E junk \in Indeterminate :
          uniforms' = SetShaderMaterial(uniforms, m_objectMaterials, Instr.tag, junk)
    /\ hist' = [hist EXCEPT !.calls = Called("SetShaderMaterial")]
    /\ Advance
    /\ lastCall' = [op |-> "SetShaderMaterial", tag |-> Instr.tag, arg |-> 0,
                    ret |-> 0]
    /\ RenderFrame

\* the uniforms the fragment and vertex shaders read for one object
Shown(u) ==
    [model |-> u.model, UVscale |-> u.UVscale, bUseTexture |-> u.bUseTexture,
     bBlendTexture |-> u.bBlendTexture, bMixFactor |-> u.bMixFactor,
     objectColor |-> u.objectColor, objectTexture |-> u.objectTexture,
     texture2 |-> u.texture2, material |-> u.material]

\* hist.shown keeps what each draw call of the first frame was issued with
StepDrawMesh ==
    /\ At("DrawMesh")
    /\ hist' = [hist EXCEPT !.calls = Called("DrawMesh"), !.draws = @ + 1,
                            !.shown = IF frame = 1
                                      THEN Append(@, Shown(uniforms)) ELSE @]
    /\ Advance
    /\ lastCall' = [op |-> "DrawMesh", tag |-> Instr.mesh, arg |-> Instr.object,
                    ret |-> 0]
    /\ UNCHANGED uniforms
    /\ RenderFrame

\* PrepareScene or RenderScene returns to the caller
Return ==
    /\ pc.fn # "idle"
    /\ ~Running
    /\ pc' = [fn |-> "idle", step |-> 0]
    /\ UNCHANGED << m_textureIDs, m_loadedTextures, m_objectMaterials, gl,
                    uniforms, meshes, lastCall, regLog, hist, frame, input >>

\* the render loop calls RenderScene for the next frame
CallRenderScene ==
    /\ Idle
    /\ frame < MaxFrames
    /\ frame' = frame + 1
    /\ pc' = [fn |-> "RenderScene", step |-> 0]
    /\ UNCHANGED << m_textureIDs, m_loadedTextures, m_objectMaterials, gl,
                    uniforms, meshes, lastCall, regLog, hist, input >>

\* a fresh SceneManager on which PrepareScene has just been called
InitScene ==
    /\ InitCommon
    /\ gl \in {InitGL("core"), InitGL("compatibility")}
    /\ pc = [fn |-> "PrepareScene", step |-> 0]
    /\ input = << >>

NextScene ==
    \/ StepDefineObjectMaterials
    \/ StepSetupSceneLights
    \/ \E channels \in ImageOutcomes : StepCreateTexture(channels)
    \/ StepBindGLTextures
    \/ StepLoadMesh
    \/ StepSetTransformations
    \/ StepSetTextureUVScale
    \/ StepSetTwoTextures
    \/ StepSetShaderColor
    \/ StepSetShaderMaterial
    \/ StepDrawMesh
    \/ Return
    \/ CallRenderScene

SpecScene == InitScene /\ [][NextScene]_vars

(***************************************************************************)
(* SpecCapacity: PrepareScene called more than once on one SceneManager,   *)
(* so that LoadGLTextures registers its ten textures again.                *)
(***************************************************************************)
MaxPrepares == 2

\* the owner of the SceneManager calls PrepareScene again
CallPrepareScene ==
    /\ Idle
    /\ hist.binds < MaxPrepares
    /\ pc' = [fn |-> "PrepareScene", step |-> 0]
    /\ UNCHANGED << m_textureIDs, m_loadedTextures, m_objectMaterials, gl,
                    uniforms, meshes, lastCall, regLog, hist, frame, input >>

NextCapacity ==
    \/ StepDefineObjectMaterials
    \/ StepSetupSceneLights
    \/ \E channels \in ImageOutcomes : StepCreateTexture(channels)
    \/ StepBindGLTextures
    \/ StepLoadMesh
    \/ Return
    \/ CallPrepareScene

SpecCapacity == InitScene /\ [][NextCapacity]_vars

(***************************************************************************)
(* Properties of the texture registry (checked under Spec).                *)
(***************************************************************************)
CreateOps == {"CreateGLTexture", "CreateMirroredTexture"}
LookupOps == {"FindTextureID", "FindTextureSlot"}

Registered(tag) == \E i \in 0..(m_loadedTextures - 1) : m_textureIDs[i].tag = tag

\* the least index holding the tag, stated without the scan
FirstIndex(tag) ==
    CHOOSE i \in 0..(m_loadedTextures - 1) :
        /\ m_textureIDs[i].tag = tag
        /\ \A j \in 0..(i - 1) : m_textureIDs[j].tag # tag

\* the slots handed out so far are 0, 1, 2, ... in order of registration
SlotsInOrder ==
    /\ Len(regLog) = m_loadedTextures
    /\ \A k \in 1..Len(regLog) :
          /\ regLog[k].slot = k - 1
          /\ m_textureIDs[k - 1].tag = regLog[k].tag

\* C1 as stated: the slots of the successful registrations are 0, 1, 2, ...
\* in order (failed calls take none), and FindTextureSlot of every registered
\* tag returns the slot given to that tag when it was registered.
C1_Original ==
    /\ SlotsInOrder
    /\ \A k \in 1..Len(regLog) :
          FindTextureSlot(m_textureIDs, m_loadedTextures, regLog[k].tag)
              = regLog[k].slot

\* C1 amended: the slots of the successful registrations are 0, 1, 2, ... in
\* order (failed calls take none), and FindTextureSlot of every registered
\* tag returns the slot given at the earliest successful registration of
\* that tag.
C1_SlotOfFirstRegistration ==
    /\ SlotsInOrder
    /\ \A k \in 1..Len(regLog) :
          LET first == CHOOSE j \in 1..k :
                          /\ regLog[j].tag = regLog[k].tag
                          /\ \A h \in 1..(j - 1) : regLog[h].tag # regLog[k].tag
          IN  FindTextureSlot(m_textureIDs, m_loadedTextures, regLog[k].tag)
                  = regLog[first].slot

\* two distinct tags and a duplicate are registered, a call that failed on
\* its channel count came between the first two (it took name 2, no slot),
\* and the second tag has just been looked up
C1_Witness ==
    /\ m_loadedTextures = 3
    /\ regLog[1].tag # regLog[2].tag
    /\ regLog[3].tag = regLog[1].tag
    /\ m_textureIDs[0].ID = 1
    /\ m_textureIDs[1].ID = 3
    /\ lastCall.op = "FindTextureSlot"
    /\ lastCall.tag = regLog[2].tag
    /\ lastCall.ret = 1

\* C2: a lookup of a tag that no registered entry carries returns -1, from
\* FindTextureSlot and from FindTextureID alike, in every registry state, and
\* no lookup changes the registry.
C2_UnregisteredLookup ==
    [][lastCall'.op \in LookupOps =>
          /\ m_textureIDs' = m_textureIDs
          /\ m_loadedTextures' = m_loadedTextures
          /\ (~Registered(lastCall'.tag) => lastCall'.ret = -1)
          /\ \A tag \in Tags \cup {"water"} :
                ~Registered(tag) =>
                    /\ FindTextureSlot(m_textureIDs, m_loadedTextures, tag) = -1
                    /\ FindTextureID(m_textureIDs, m_loadedTextures, tag) = -1]_vars

\* FindTextureSlot has just missed on a registry of two entries
C2_Witness ==
    /\ lastCall.op = "FindTextureSlot"
    /\ lastCall.ret = -1
    /\ m_loadedTextures = 2
    /\ ~Registered(lastCall.tag)

\* C3: a registration call whose image does not decode, or decodes to a
\* channel count other than 3 and 4, returns false and leaves
\* m_loadedTextures and every entry's tag and handle as they were.
C3_FailedRegistration ==
    [][(lastCall'.op \in CreateOps /\ lastCall'.arg \notin {3, 4}) =>
          /\ lastCall'.ret = FALSE
          /\ m_loadedTextures' = m_loadedTextures
          /\ m_textureIDs' = m_textureIDs]_vars

\* a two-channel image has just been refused with two entries registered
C3_Witness ==
    /\ lastCall.op = "CreateMirroredTexture"
    /\ lastCall.arg = 2
    /\ lastCall.ret = FALSE
    /\ m_loadedTextures = 2
    /\ gl.names = 3

\* C8: registering a tag that is already registered succeeds and appends a
\* second entry in a new slot of its own, and from then on FindTextureSlot and
\* FindTextureID return the slot and the handle of the earliest entry with
\* that tag.
C8_DuplicateTag ==
    /\ [](\A tag \in Tags :
            Registered(tag) =>
                /\ FindTextureSlot(m_textureIDs, m_loadedTextures, tag)
                       = FirstIndex(tag)
                /\ FindTextureID(m_textureIDs, m_loadedTextures, tag)
                       = m_textureIDs[FirstIndex(tag)].ID)
    /\ [][(/\ lastCall'.op \in CreateOps
           /\ lastCall'.arg \in {3, 4}
           /\ Registered(lastCall'.tag)) =>
             /\ lastCall'.ret = TRUE
             /\ m_loadedTextures' = m_loadedTextures + 1
             /\ m_textureIDs'[m_loadedTextures].tag = lastCall'.tag
             /\ \A i \in 0..(m_loadedTextures - 1) :
                   m_textureIDs'[i] = m_textureIDs[i]]_vars

\* the same tag sits in slots 0 and 2 under different handles, and
\* FindTextureID has just returned the handle of slot 0
C8_Witness ==
    /\ m_loadedTextures = 3
    /\ m_textureIDs[0].tag = m_textureIDs[2].tag
    /\ m_textureIDs[1].tag # m_textureIDs[0].tag
    /\ m_textureIDs[0].ID # m_textureIDs[2].ID
    /\ lastCall.op = "FindTextureID"
    /\ lastCall.tag = m_textureIDs[2].tag
    /\ lastCall.ret = m_textureIDs[0].ID

(***************************************************************************)
(* Properties of the material catalog (checked under SpecMaterial).        *)
(***************************************************************************)
\* C4: FindMaterial returns false on an empty catalog and true, for every
\* tag, on a non-empty one; when no entry carries the tag the caller's
\* material is left as it was, and on a match it receives the diffuse color,
\* specular color and shininess of the first entry with that tag.
C4_FindMaterial ==
    lastCall.op = "FindMaterial" =>
        LET given == lastCall.arg
            out == lastCall.ret
            hits == {i \in 1..Len(m_objectMaterials) :
                        m_objectMaterials[i].tag = lastCall.tag}
        IN  /\ out.ret = (Len(m_objectMaterials) # 0)
            /\ hits = {} => out.material = given
            /\ hits # {} =>
                  LET first == CHOOSE i \in hits : \A j \in hits : i <= j
                  IN  /\ out.material.diffuseColor
                          = m_objectMaterials[first].diffuseColor
                      /\ out.material.specularColor
                          = m_objectMaterials[first].specularColor
                      /\ out.material.shininess
                          = m_objectMaterials[first].shininess

\* a tag of no entry was looked up in the catalog of seven: the call
\* returned true and the caller's material is untouched
C4_Witness ==
    /\ lastCall.op = "FindMaterial"
    /\ lastCall.tag = "gold"
    /\ Len(m_objectMaterials) = 7
    /\ lastCall.arg.tag = "mine"
    /\ lastCall.ret.ret = TRUE
    /\ lastCall.ret.material = lastCall.arg

(***************************************************************************)
(* Properties of the model transform (checked under SpecTransform).        *)
(***************************************************************************)
\* the image of a point under a 4x4 matrix whose last row is (0, 0, 0, 1)
Apply(m, p) ==
    [r \in 1..3 |->
        (m[r][1] * p[1] + m[r][2] * p[2] + m[r][3] * p[3] + m[r][4] * One)
            \div One]

\* the five transformations as maps of points, written out by component
ScalePoint(v, p) ==
    << (v[1] * p[1]) \div One, (v[2] * p[2]) \div One, (v[3] * p[3]) \div One >>
RotateXPoint(d, p) ==
    << p[1], (Cos(d) * p[2] - Sin(d) * p[3]) \div One,
             (Sin(d) * p[2] + Cos(d) * p[3]) \div One >>
RotateYPoint(d, p) ==
    << (Cos(d) * p[1] + Sin(d) * p[3]) \div One, p[2],
       (Cos(d) * p[3] - Sin(d) * p[1]) \div One >>
RotateZPoint(d, p) ==
    << (Cos(d) * p[1] - Sin(d) * p[2]) \div One,
       (Sin(d) * p[1] + Cos(d) * p[2]) \div One, p[3] >>
TranslatePoint(v, p) == << p[1] + v[1], p[2] + v[2], p[3] + v[3] >>

\* the origin and the unit points fix an affine map
ProbePoints == {<< 0, 0, 0 >>, << One, 0, 0 >>, << 0, One, 0 >>, << 0, 0, One >>}

ExampleTransform ==
    [scale |-> << Real(2, 0), One, One >>, rx |-> 0, ry |-> 90, rz |-> 0,
     pos |-> << Real(3, 0), 0, 0 >>]

\* C6: the matrix SetTransformations writes to "model" maps every point as
\* scaling, then rotation about X, then Y, then Z, then translation do, for
\* rotations by multiples of 90 degrees; with scale (2,1,1), rotation
\* (0,90,0) and translation (3,0,0) the point (1,0,0) goes to (3,0,-2).
C6_ModelMatrix ==
    pc.step = 1 =>
        /\ uniforms.model[4] = << 0, 0, 0, One >>
        /\ \A p \in ProbePoints :
              Apply(uniforms.model, p)
                  = TranslatePoint(input.pos,
                      RotateZPoint(input.rz,
                        RotateYPoint(input.ry,
                          RotateXPoint(input.rx, ScalePoint(input.scale, p)))))
        /\ input = ExampleTransform =>
              Apply(uniforms.model, << One, 0, 0 >>)
                  = << Real(3, 0), 0, -Real(2, 0) >>

\* SetTransformations has run on the example of the claim
C6_Witness ==
    /\ pc = [fn |-> "SetTransformations", step |-> 1]
    /\ input = ExampleTransform
    /\ uniforms.model[1][4] = Real(3, 0)
    /\ uniforms.model[3][1] = -Real(2, 0)

(***************************************************************************)
(* Properties of texture selection (checked under SpecShader).             *)
(***************************************************************************)
\* the slot of a tag, stated without the scan
ExpectedSlot(tag) == IF Registered(tag) THEN FirstIndex(tag) ELSE -1

\* C7: SetShaderTexture(tagA) and SetTwoTextures(tagA, tagA, 0.0) write the
\* same value to the "objectTexture" sampler, the slot FindTextureSlot gives
\* tagA (-1 for a tag not registered), and SetTwoTextures writes that slot
\* to "texture2" as well.
C7_SameSampler ==
    [][/\ lastCall'.op = "SetShaderTexture" =>
            uniforms'.objectTexture = ExpectedSlot(lastCall'.tag)
       /\ (/\ lastCall'.op = "SetTwoTextures"
           /\ lastCall'.arg.tag2 = lastCall'.tag
           /\ lastCall'.arg.mixFactor = 0) =>
            /\ uniforms'.objectTexture = ExpectedSlot(lastCall'.tag)
            /\ uniforms'.texture2 = ExpectedSlot(lastCall'.tag)]_vars

\* SetTwoTextures(tagA, tagA, 0.0) has run for the tag registered second
C7_Witness ==
    /\ lastCall.op = "SetTwoTextures"
    /\ lastCall.arg.tag2 = lastCall.tag
    /\ lastCall.arg.mixFactor = 0
    /\ m_loadedTextures = 3
    /\ m_textureIDs[0].tag # lastCall.tag
    /\ m_textureIDs[1].tag = lastCall.tag
    /\ uniforms.objectTexture = 1
    /\ uniforms.texture2 = 1

(***************************************************************************)
(* Properties of PrepareScene and RenderScene (checked under SpecScene).   *)
(***************************************************************************)
CatalogTags == [i \in 1..Len(m_objectMaterials) |-> m_objectMaterials[i].tag]

\* C5: once PrepareScene has run on a fresh SceneManager the catalog holds
\* exactly the seven tags shinyPlastic, flatPlastic, glass, bread,
\* tableCloth, wall, orange, in this order, and no step of a RenderScene
\* call changes the catalog.
C5_SevenMaterials ==
    /\ [](pc.fn # "PrepareScene" =>
            CatalogTags = << "shinyPlastic", "flatPlastic", "glass", "bread",
                             "tableCloth", "wall", "orange" >>)
    /\ [][(pc.fn = "RenderScene" \/ pc'.fn = "RenderScene") =>
             m_objectMaterials' = m_objectMaterials]_vars

\* two frames have been rendered after PrepareScene
C5_Witness ==
    /\ pc.fn = "idle"
    /\ frame = 2
    /\ hist.draws = 28
    /\ Len(m_objectMaterials) = 7
    /\ m_objectMaterials[3].tag = "glass"

\* C9: BindGLTextures runs exactly once, after the tenth registration
\* attempt and before the first draw call, and binds entry i to texture
\* unit i for every i below m_loadedTextures.
C9_BindOnce ==
    /\ hist.binds <= 1
    /\ hist.binds = 1 => hist.attempts = 10
    /\ hist.draws > 0 => hist.binds = 1
    /\ pc.fn # "PrepareScene" => hist.binds = 1
    /\ lastCall.op = "BindGLTextures" =>
          \A i \in 0..(m_loadedTextures - 1) : gl.bound[i] = m_textureIDs[i].ID

\* BindGLTextures has just bound nine textures: one of the ten loads failed
\* after taking a texture name, so units and handles differ
C9_Witness ==
    /\ lastCall.op = "BindGLTextures"
    /\ hist.binds = 1
    /\ hist.attempts = 10
    /\ hist.draws = 0
    /\ m_loadedTextures = 9
    /\ gl.names = 10
    /\ gl.bound[8] = 10

NotUVScale(op) == op # "SetTextureUVScale"

\* C10: at every draw call of RenderScene the calls made for the object are,
\* in order, SetTransformations, then SetShaderColor or SetTwoTextures, then
\* SetShaderMaterial, then the draw call (SetTextureUVScale aside).
C10_FixedOrder ==
    lastCall.op = "DrawMesh" =>
        SelectSeq(hist.calls, NotUVScale)
            \in { << "SetTransformations", "SetShaderColor",
                     "SetShaderMaterial", "DrawMesh" >>,
                  << "SetTransformations", "SetTwoTextures",
                     "SetShaderMaterial", "DrawMesh" >> }

IsSelection(op) == op \in {"SetShaderColor", "SetTwoTextures"}

\* the objects of RenderScene whose step calls SetShaderColor
ColourObjects == {6, 7, 8, 10, 11, 12, 14}

\* C11: at every draw call of RenderScene exactly one of SetShaderColor and
\* SetTwoTextures has been called for the object; "bUseTexture" is false at
\* the draw call of a colour object and true at that of a textured object.
C11_OneSelection ==
    lastCall.op = "DrawMesh" =>
        IF lastCall.arg \in ColourObjects
        THEN /\ SelectSeq(hist.calls, IsSelection) = << "SetShaderColor" >>
             /\ uniforms.bUseTexture = 0
        ELSE /\ SelectSeq(hist.calls, IsSelection) = << "SetTwoTextures" >>
             /\ uniforms.bUseTexture = 1

\* the butter lid, a colour object drawn right after a textured one, has
\* just been drawn in the second frame
C11_Witness ==
    /\ lastCall.op = "DrawMesh"
    /\ lastCall.arg = 6
    /\ frame = 2
    /\ hist.calls = << "SetTransformations", "SetShaderColor",
                       "SetShaderMaterial", "DrawMesh" >>
    /\ uniforms.bUseTexture = 0
    /\ uniforms.bBlendTexture = 1

\* the uniforms after one call of RenderScene, made on its own
ApplyCall(u, call) ==
    CASE call.op = "SetTransformations" -> SetTransformations(u, call.t)
      [] call.op = "SetTextureUVScale" -> SetTextureUVScale(u, call.uv)
      [] call.op = "SetTwoTextures" ->
            SetTwoTextures(u, gl, m_textureIDs, m_loadedTextures, call.tag1,
                           call.tag2, call.mixFactor).uniforms
      [] call.op = "SetShaderColor" -> SetShaderColor(u, call.color)
      [] call.op = "SetShaderMaterial" ->
            SetShaderMaterial(u, m_objectMaterials, call.tag, 0)
      [] OTHER -> u

\* the uniforms after the calls RenderScene makes for one object, from its
\* i-th call on, when the calls for the other objects are left out
RECURSIVE StepAlone(_, _, _)
StepAlone(object, u, i) ==
    IF i > Len(RenderScene)
    THEN u
    ELSE StepAlone(object,
                   IF RenderScene[i].object = object
                   THEN ApplyCall(u, RenderScene[i]) ELSE u,
                   i + 1)

\* C12: the uniform values in effect at an object's draw call (model,
\* UVscale, bUseTexture, bBlendTexture, bMixFactor, objectColor,
\* objectTexture, texture2, material) are the ones the object's own step
\* produces when no other object is drawn before it, and they are the same
\* at that object's draw call in every frame, the first included.
C12_Stateless ==
    lastCall.op = "DrawMesh" =>
        /\ Shown(uniforms) = Shown(StepAlone(lastCall.arg, InitUniforms, 1))
        /\ frame > 1 => Shown(uniforms) = hist.shown[lastCall.arg]

(***************************************************************************)
(* Further properties of the texture registry (checked under Spec).        *)
(***************************************************************************)
\* C13: after every call of CreateGLTexture or CreateMirroredTexture,
\* whatever its outcome, the 2D texture binding of the active texture unit
\* is 0, and the texture the call generated is bound to no unit.
C13_LeftUnbound ==
    lastCall.op \in CreateOps =>
        /\ gl.bound[gl.active] = 0
        /\ lastCall.arg # 0 =>
              \A unit \in 0..(TextureUnits - 1) : gl.bound[unit] # gl.names

C15_NoCapacityCheck ==
    /\ [][(At("CreateTexture") /\ lastCall'.arg \in {3, 4}) =>
            /\ lastCall'.ret = TRUE
            /\ m_loadedTextures' = m_loadedTextures + 1
            /\ m_textureIDs'[m_loadedTextures] =
                  [ID |-> gl'.names, tag |-> Instr.tag]
            /\ \A i \in 0..(m_loadedTextures - 1) :
                  m_textureIDs'[i] = m_textureIDs[i]]_vars
    /\ [](hist.attempts <= 10 =>
            /\ m_loadedTextures <= 10
            /\ DOMAIN m_textureIDs \subseteq 0..(TextureUnits - 1))

\* the seventeenth registration has just returned true
C15_Witness ==
    /\ lastCall.op \in CreateOps
    /\ lastCall.arg \in {3, 4}
    /\ lastCall.ret = TRUE
    /\ hist.attempts = 17
    /\ m_loadedTextures = 17
    /\ 16 \in DOMAIN m_textureIDs
    /\ m_textureIDs[16] = [ID |-> 17, tag |-> "breadSide"]

(***************************************************************************)
(* Texture units during rendering (checked under SpecScene).               *)
(***************************************************************************)
Slots == 0..9

\* C16: when all ten loads of PrepareScene have succeeded, at every draw
\* call of every frame texture unit i is bound to the handle of registry
\* entry i for each slot i in 0..9, no other unit has a texture bound, and
\* the two samplers written by SetTwoTextures hold slots in 0..9; every
\* call of SetTwoTextures resolves both its tags to such a slot.
C16_UnitsMatchSlots ==
    hist.failures = 0 =>
        /\ lastCall.op = "DrawMesh" =>
              /\ m_loadedTextures = 10
              /\ \A i \in Slots : gl.bound[i] = m_textureIDs[i].ID
              /\ \A unit \in 0..(TextureUnits - 1) :
                    gl.bound[unit] # 0 =>
                        unit \in Slots /\ gl.bound[unit] = m_textureIDs[unit].ID
              /\ uniforms.objectTexture \in Slots
              /\ uniforms.texture2 \in Slots
        /\ lastCall.op = "SetTwoTextures" =>
              /\ uniforms.objectTexture \in Slots
              /\ uniforms.texture2 \in Slots
              /\ m_textureIDs[uniforms.objectTexture].tag = lastCall.tag
              /\ m_textureIDs[uniforms.texture2].tag = lastCall.arg.tag2

\* the orange has just been drawn in the second frame, all loads having
\* succeeded: its textures are on units 5 and 4
C16_Witness ==
    /\ hist.failures = 0
    /\ lastCall.op = "DrawMesh"
    /\ lastCall.arg = 9
    /\ frame = 2
    /\ uniforms.objectTexture = 5
    /\ uniforms.texture2 = 4
    /\ gl.bound[5] = m_textureIDs[5].ID
    /\ m_textureIDs[5].tag = "orange"
    /\ gl.active = 4

(***************************************************************************)
(* SetShaderMaterial (checked under SpecMaterial).                         *)
(***************************************************************************)
MaterialValues(entry) ==
    [diffuseColor |-> entry.diffuseColor, specularColor |-> entry.specularColor,
     shininess |-> entry.shininess]

\* C17: SetShaderMaterial(tag) leaves the three material uniforms holding
\* the values of a catalog entry with that tag when there is one, and
\* leaves them as they were when the catalog is empty or has no such entry.
C17_OnlyMatchingEntry ==
    [][lastCall'.op = "SetShaderMaterial" =>
          IF \E i \in 1..Len(m_objectMaterials) :
                m_objectMaterials[i].tag = lastCall'.tag
          THEN \E i \in 1..Len(m_objectMaterials) :
                  /\ m_objectMaterials[i].tag = lastCall'.tag
                  /\ uniforms'.material = MaterialValues(m_objectMaterials[i])
          ELSE uniforms'.material = uniforms.material]_vars

====
